---- MODULE Spec2Model ----
(***************************************************************************)
(* Dynamic Speech Trimmer (src/audioProcessor.js): processAudioBuffer and  *)
(* its helpers msToSamples, downmixToMono, detectSpeechSegments,           *)
(* buildOutputBufferFromSegments, audioBufferToWavBlob, floatTo16BitPCM.   *)
(*                                                                         *)
(* Sample values are exact rationals <<n, d>> (d > 0, lowest terms).  The  *)
(* inputs are dyadic, so every comparison, sum and channel average of the  *)
(* program is exact in Float32 as well.  Sample indices are 0-based as in  *)
(* the source; the sample with index i is element i + 1 of its sequence.   *)
(* A segment is the pair <<start, end>> the source keeps as [start, end].  *)
(***************************************************************************)
EXTENDS Integers, Sequences, FiniteSets, TLC

VARIABLES pc, audioBuffer, options, minSilenceSamples, overlapSamples,
          monoData, raw, segments, total, out, writePos, idx, outBuffer, wav

vars == <<pc, audioBuffer, options, minSilenceSamples, overlapSamples,
          monoData, raw, segments, total, out, writePos, idx, outBuffer, wav>>

\* ------------------------------------------------------------- bounds
\* Largest number of input samples (channels x frames) of a clip.
MaxN == 6
\* Longest buffer handed directly to the PCM encoder.
MaxPcmLen == 2
\* Largest overlapSamples handed directly to the stitcher.
MaxOverlap == 3

\* ------------------------------------------------------------- arithmetic
Abs(x) == IF x < 0 THEN -x ELSE x

Min2(a, b) == IF a < b THEN a ELSE b

Max2(a, b) == IF a > b THEN a ELSE b

RECURSIVE GCD(_, _)
GCD(a, b) == IF b = 0 THEN a ELSE GCD(b, a % b)

\* The rational n / d in lowest terms, d > 0.
Rat(n, d) == LET g == GCD(Abs(n), d) IN <<n \div g, d \div g>>

RatAdd(a, b) == Rat(a[1] * b[2] + b[1] * a[2], a[2] * b[2])

RatMul(a, b) == Rat(a[1] * b[1], a[2] * b[2])

RatAbs(a) == <<Abs(a[1]), a[2]>>

RatLess(a, b) == a[1] * b[2] < b[1] * a[2]

Zero == Rat(0, 1)

\* Math.floor(x + 0.5) for x = n / d, d > 0: JavaScript's Math.round.
MathRound(n, d) == (2 * n + d) \div (2 * d)

\* ------------------------------------------------------------- inputs
\* Sample values of the clips: 0, -1/4 and 3/4.
Samples == {Rat(0, 1), Rat(-1, 4), Rat(3, 4)}

\* Sample rates: 20 Hz (merge gap 0) and 100 Hz (merge gap 3).
SampleRates == {20, 100}

\* options.silenceThreshold: -1/4 sits exactly on the first, below the second.
Thresholds == {Rat(1, 4), Rat(1, 2)}

\* options.minSilenceMs; -50 is an invalid (negative) duration.
MinSilenceMsSet == {-50, 10, 25, 100}

\* options.overlapMs; -50 is an invalid (negative) duration.
OverlapMsSet == {-50, 10, 100}

\* Every sequence over S of length exactly n.
SeqsOfLen(S, n) == [1..n -> S]

\* The channel layouts: one channel of up to MaxN frames, or two channels
\* with up to MaxN samples between them.
ChannelLayouts ==
  UNION {{<<c>> : c \in SeqsOfLen(Samples, n)} : n \in 0..MaxN}
  \cup UNION {{<<c1, c2>> : c1 \in SeqsOfLen(Samples, n), c2 \in SeqsOfLen(Samples, n)} :
              n \in 0..(MaxN \div 2)}

\* ------------------------------------------------------------- helpers
\* The caller (src/app.js) passes all three options, so no default applies.
\* Math.max(0, Math.round((ms / 1000) * sampleRate)); Math.round rounds a
\* half up.
msToSamples(ms, sampleRate) == Max2(0, MathRound(ms * sampleRate, 1000))

RECURSIVE SumAt(_, _, _)
SumAt(channels, ch, i) ==
  IF ch = 0 THEN Zero ELSE RatAdd(SumAt(channels, ch - 1, i), channels[ch][i])

downmixToMono(buf) ==
  LET numberOfChannels == Len(buf.channels)
      length == Len(buf.channels[1])
  IN IF numberOfChannels = 1
       THEN [i \in 1..length |-> buf.channels[1][i]]
       ELSE [i \in 1..length |->
               RatMul(SumAt(buf.channels, numberOfChannels, i), Rat(1, numberOfChannels))]

\* ------------------------------------------------------------- detection
ScanInit == [segments |-> <<>>, inSilence |-> FALSE, silenceRun |-> 0,
             currentSpeechStart |-> 0]

\* ScanStep without the test that the closed segment has positive length.
ScanStepNoLengthTest(channelData, silenceThreshold, minSilence, st, i) ==
  LET amp == RatAbs(channelData[i + 1]) IN
  IF RatLess(amp, silenceThreshold)
    THEN LET run == st.silenceRun + 1 IN
         IF ~st.inSilence /\ run >= minSilence
           THEN LET speechEnd == Max2(0, i - run) IN
                [st EXCEPT !.silenceRun = run,
                           !.inSilence = TRUE,
                           !.segments = Append(@, <<st.currentSpeechStart, speechEnd>>)]
           ELSE [st EXCEPT !.silenceRun = run]
    ELSE [st EXCEPT !.currentSpeechStart = IF st.inSilence THEN i ELSE @,
                    !.inSilence = FALSE,
                    !.silenceRun = 0]

\* ScanStep splitting one sample before the run reaches minSilenceSamples.
ScanStepEarlySplit(channelData, silenceThreshold, minSilence, st, i) ==
  LET amp == RatAbs(channelData[i + 1]) IN
  IF RatLess(amp, silenceThreshold)
    THEN LET run == st.silenceRun + 1 IN
         IF ~st.inSilence /\ run >= minSilence - 1
           THEN LET speechEnd == Max2(0, i - run) IN
                [st EXCEPT !.silenceRun = run,
                           !.inSilence = TRUE,
                           !.segments = IF speechEnd > st.currentSpeechStart
                                          THEN Append(@, <<st.currentSpeechStart, speechEnd>>)
                                          ELSE @]
           ELSE [st EXCEPT !.silenceRun = run]
    ELSE [st EXCEPT !.currentSpeechStart = IF st.inSilence THEN i ELSE @,
                    !.inSilence = FALSE,
                    !.silenceRun = 0]

\* One iteration of the scan loop, for sample index i.
ScanStep(channelData, silenceThreshold, minSilence, st, i) ==
  LET amp == RatAbs(channelData[i + 1]) IN
  IF RatLess(amp, silenceThreshold)
    THEN LET run == st.silenceRun + 1 IN
         IF ~st.inSilence /\ run >= minSilence
           THEN LET speechEnd == Max2(0, i - run) IN
                [st EXCEPT !.silenceRun = run,
                           !.inSilence = TRUE,
                           !.segments = IF speechEnd > st.currentSpeechStart
                                          THEN Append(@, <<st.currentSpeechStart, speechEnd>>)
                                          ELSE @]
           ELSE [st EXCEPT !.silenceRun = run]
    ELSE [st EXCEPT !.currentSpeechStart = IF st.inSilence THEN i ELSE @,
                    !.inSilence = FALSE,
                    !.silenceRun = 0]

RECURSIVE ScanLoop(_, _, _, _, _)
ScanLoop(channelData, silenceThreshold, minSilence, st, i) ==
  IF i >= Len(channelData) THEN st
  ELSE ScanLoop(channelData, silenceThreshold, minSilence,
                ScanStep(channelData, silenceThreshold, minSilence, st, i), i + 1)

\* Tail handling: the scan ended during speech.
TailRule(st, N) ==
  IF ~st.inSilence /\ st.currentSpeechStart < N
    THEN Append(st.segments, <<st.currentSpeechStart, N>>)
    ELSE st.segments

\* FallbackRule left out.
FallbackRuleMissing(segs, N) == segs

\* Nothing found: the entire clip is one segment.
FallbackRule(segs, N) == IF Len(segs) = 0 THEN <<<<0, N>>>> ELSE segs

RawSegments(channelData, silenceThreshold, minSilence) ==
  LET N == Len(channelData)
      st == ScanLoop(channelData, silenceThreshold, minSilence, ScanInit, 0)
  IN FallbackRule(TailRule(st, N), N)

\* Math.floor(sampleRate * 0.03); for the sample rates used here (and for
\* 16000) the double product floors to the exact value.
MERGE_GAP_SAMPLES(sampleRate) == (sampleRate * 3) \div 100

\* MergeStep appending the joined segment instead of extending the last one.
MergeStepAppendsJoined(merged, seg, gap) ==
  IF Len(merged) = 0 THEN Append(merged, seg)
  ELSE LET prev == merged[Len(merged)] IN
       IF seg[1] - prev[2] <= gap
         THEN Append(merged, <<prev[1], seg[2]>>)
         ELSE Append(merged, seg)

\* MergeStep with a strict comparison of the gap.
MergeStepStrictGap(merged, seg, gap) ==
  IF Len(merged) = 0 THEN Append(merged, seg)
  ELSE LET prev == merged[Len(merged)] IN
       IF seg[1] - prev[2] < gap
         THEN [merged EXCEPT ![Len(merged)] = <<prev[1], seg[2]>>]
         ELSE Append(merged, seg)

\* One iteration of the merge loop: seg joins the list merged so far.
MergeStep(merged, seg, gap) ==
  IF Len(merged) = 0 THEN Append(merged, seg)
  ELSE LET prev == merged[Len(merged)] IN
       IF seg[1] - prev[2] <= gap
         THEN [merged EXCEPT ![Len(merged)] = <<prev[1], seg[2]>>]
         ELSE Append(merged, seg)

RECURSIVE MergeLoop(_, _, _, _)
MergeLoop(segs, k, merged, gap) ==
  IF k > Len(segs) THEN merged
  ELSE MergeLoop(segs, k + 1, MergeStep(merged, segs[k], gap), gap)

detectSpeechSegments(channelData, sampleRate, silenceThreshold, minSilence) ==
  MergeLoop(RawSegments(channelData, silenceThreshold, minSilence), 1, <<>>,
            MERGE_GAP_SAMPLES(sampleRate))

\* ------------------------------------------------------------- stitching
\* An output sample is kept as the blend it was computed from: a sequence of
\* terms <<src, num, den>>, the source sample with index src weighted num/den.
\* The empty blend is the 0 a new Float32Array holds.  Blends are evaluated
\* exactly; the Float32 rounding of a crossfaded sample is not modelled.
Verbatim(src) == <<<<src, 1, 1>>>>

ScaleBlend(blend, num, den) ==
  [t \in 1..Len(blend) |-> <<blend[t][1], blend[t][2] * num, blend[t][3] * den>>]

RECURSIVE EvalBlend(_, _, _)
EvalBlend(source, blend, t) ==
  IF t = 0 THEN Zero
  ELSE RatAdd(EvalBlend(source, blend, t - 1),
              RatMul(source[blend[t][1] + 1], Rat(blend[t][2], blend[t][3])))

EvalBuffer(source, buf) == [j \in 1..Len(buf) |-> EvalBlend(source, buf[j], Len(buf[j]))]

SegLen(seg) == seg[2] - seg[1]

\* The overlap at the boundary before segment k (1-based, k > 1).
Overlap(segs, k, ov) == Min2(Min2(ov, SegLen(segs[k - 1])), SegLen(segs[k]))

\* TotalLength with the overlap bounded by the current segment only.
RECURSIVE TotalLengthNoPrevLen(_, _, _)
TotalLengthNoPrevLen(segs, k, ov) ==
  IF k = 0 THEN 0
  ELSE TotalLengthNoPrevLen(segs, k - 1, ov) + SegLen(segs[k])
       - (IF k > 1 THEN Min2(ov, SegLen(segs[k])) ELSE 0)

\* Total length with overlaps, segments 1..k.
RECURSIVE TotalLength(_, _, _)
TotalLength(segs, k, ov) ==
  IF k = 0 THEN 0
  ELSE TotalLength(segs, k - 1, ov) + SegLen(segs[k])
       - (IF k > 1 THEN Overlap(segs, k, ov) ELSE 0)

\* a * fadeOut + b * fadeIn at step i of an ov-sample crossfade; b is the
\* source sample with index src.
Crossfade(a, src, i, ov) == ScaleBlend(a, ov - i, ov) \o <<<<src, i, ov>>>>

\* The output after segment number k (1-based) is written with the cursor at
\* wp: ovl crossfaded samples, then the rest of the segment verbatim.  A typed
\* array ignores the store to an index it does not have.
WriteSegment(o, seg, wp, ovl) ==
  [j \in 1..Len(o) |->
     LET p == j - 1 IN
     IF p >= wp /\ p < wp + ovl THEN Crossfade(o[j], seg[1] + (p - wp), p - wp, ovl)
     ELSE IF p >= wp + ovl /\ p < wp + SegLen(seg) THEN Verbatim(seg[1] + (p - wp))
     ELSE o[j]]

\* ------------------------------------------------------------- encoding
PosFullScale == 32767

NegFullScale == 32768

\* The integer part of n / d, d > 0 (toward zero).
Trunc(r) == IF r[1] >= 0 THEN r[1] \div r[2] ELSE -((-r[1]) \div r[2])

\* DataView.setInt16 stores ToInt16 of its argument.
ToInt16(r) ==
  LET m == Trunc(r) % 65536 IN IF m >= 32768 THEN m - 65536 ELSE m

Clamp(x) ==
  LET lo == IF RatLess(Rat(1, 1), x) THEN Rat(1, 1) ELSE x
  IN IF RatLess(lo, Rat(-1, 1)) THEN Rat(-1, 1) ELSE lo

\* The 16-bit value floatTo16BitPCM stores for the input sample x.
floatTo16BitPCM(x) ==
  LET s == Clamp(x) IN
  ToInt16(IF RatLess(s, Zero) THEN RatMul(s, Rat(NegFullScale, 1))
          ELSE RatMul(s, Rat(PosFullScale, 1)))

audioBufferToWavBlob(buffer) ==
  LET samples == Len(buffer.data)
      bytesPerSample == 2
      blockAlign == 1 * bytesPerSample
      dataSize == samples * bytesPerSample
  IN [chunkSize |-> 36 + dataSize, audioFormat |-> 1, numChannels |-> 1,
      sampleRate |-> buffer.sampleRate, byteRate |-> buffer.sampleRate * blockAlign,
      blockAlign |-> blockAlign, bitsPerSample |-> 16, dataSize |-> dataSize,
      byteLength |-> 44 + dataSize,
      pcm |-> [j \in 1..samples |-> floatTo16BitPCM(buffer.data[j])]]

\* ------------------------------------------------------------- pipeline
NoBuffer == [sampleRate |-> 0, data |-> <<>>]

NoWav == [byteLength |-> 0]

Idle == /\ minSilenceSamples = 0 /\ overlapSamples = 0 /\ monoData = <<>>
        /\ raw = <<>> /\ segments = <<>> /\ total = 0 /\ out = <<>>
        /\ writePos = 0 /\ idx = 0 /\ outBuffer = NoBuffer /\ wav = NoWav

\* processAudioBuffer(audioContext, audioBuffer, options) is called.
Init ==
  /\ pc = "entry"
  /\ audioBuffer \in [sampleRate : SampleRates, channels : ChannelLayouts]
  /\ options \in [silenceThreshold : Thresholds, minSilenceMs : MinSilenceMsSet,
                  overlapMs : OverlapMsSet]
  /\ Idle

\* Options, sample counts and the downmix.
Entry ==
  /\ pc = "entry"
  /\ minSilenceSamples' = msToSamples(options.minSilenceMs, audioBuffer.sampleRate)
  /\ overlapSamples' = msToSamples(options.overlapMs, audioBuffer.sampleRate)
  /\ monoData' = downmixToMono(audioBuffer)
  /\ pc' = "detect"
  /\ UNCHANGED <<audioBuffer, options, raw, segments, total, out, writePos, idx,
                 outBuffer, wav>>

\* The call of detectSpeechSegments; raw is its list before the merge pass.
Detect ==
  /\ pc = "detect"
  /\ raw' = RawSegments(monoData, options.silenceThreshold, minSilenceSamples)
  /\ segments' = detectSpeechSegments(monoData, audioBuffer.sampleRate,
                                      options.silenceThreshold, minSilenceSamples)
  /\ pc' = "branch"
  /\ UNCHANGED <<audioBuffer, options, minSilenceSamples, overlapSamples, monoData,
                 total, out, writePos, idx, outBuffer, wav>>

NoSignificantSilence(segs, N) ==
  /\ Len(segs) <= 1
  /\ Len(segs) >= 1
  /\ segs[1][1] = 0
  /\ segs[1][2] = N

\* No significant silence found: the original goes to the encoder.
PassThrough ==
  /\ pc = "branch"
  /\ NoSignificantSilence(segments, Len(monoData))
  /\ outBuffer' = [sampleRate |-> audioBuffer.sampleRate,
                   data |-> [j \in 1..Len(monoData) |-> monoData[j]]]
  /\ pc' = "encode"
  /\ UNCHANGED <<audioBuffer, options, minSilenceSamples, overlapSamples, monoData,
                 raw, segments, total, out, writePos, idx, wav>>

\* buildOutputBufferFromSegments is entered: the early returns, or the
\* allocation of the output.
StitchBegin ==
  /\ pc \in {"branch", "build"}
  /\ pc = "branch" => ~NoSignificantSilence(segments, Len(monoData))
  /\ IF Len(segments) = 0
       THEN /\ out' = <<>>
            /\ total' = 0
            /\ idx' = 0
       ELSE IF Len(segments) = 1
         THEN /\ out' = [j \in 1..SegLen(segments[1]) |-> Verbatim(segments[1][1] + j - 1)]
              /\ total' = SegLen(segments[1])
              /\ idx' = 1
         ELSE /\ total' = TotalLength(segments, Len(segments), overlapSamples)
              /\ out' = [j \in 1..total' |-> <<>>]
              /\ idx' = 0
  /\ writePos' = 0
  /\ pc' = "stitch"
  /\ UNCHANGED <<audioBuffer, options, minSilenceSamples, overlapSamples, monoData,
                 raw, segments, outBuffer, wav>>

\* One iteration of the stitching loop, for segments[idx].  TypedArray.set
\* throws a RangeError when the source does not fit at the offset.
StitchStep ==
  /\ pc = "stitch"
  /\ idx < Len(segments)
  /\ Len(segments) > 1
  /\ LET seg == segments[idx + 1]
         ovl == IF idx = 0 THEN 0 ELSE Overlap(segments, idx + 1, overlapSamples)
         wp == writePos - ovl
     IN IF wp + SegLen(seg) > Len(out)
          THEN /\ pc' = "threw"
               /\ UNCHANGED <<out, writePos, idx>>
          ELSE /\ out' = WriteSegment(out, seg, wp, ovl)
               /\ writePos' = wp + SegLen(seg)
               /\ idx' = idx + 1
               /\ pc' = "stitch"
  /\ UNCHANGED <<audioBuffer, options, minSilenceSamples, overlapSamples, monoData,
                 raw, segments, total, outBuffer, wav>>

\* The stitched samples are returned and copied into the output AudioBuffer.
StitchReturn ==
  /\ pc = "stitch"
  /\ idx >= Len(segments) \/ Len(segments) <= 1
  /\ outBuffer' = [sampleRate |-> audioBuffer.sampleRate,
                   data |-> EvalBuffer(monoData, out)]
  /\ pc' = "encode"
  /\ UNCHANGED <<audioBuffer, options, minSilenceSamples, overlapSamples, monoData,
                 raw, segments, total, out, writePos, idx, wav>>

\* audioBufferToWavBlob: the container processAudioBuffer resolves with.
Encode ==
  /\ pc = "encode"
  /\ wav' = audioBufferToWavBlob(outBuffer)
  /\ pc' = "done"
  /\ UNCHANGED <<audioBuffer, options, minSilenceSamples, overlapSamples, monoData,
                 raw, segments, total, out, writePos, idx, outBuffer>>

Next == Entry \/ Detect \/ PassThrough \/ StitchBegin \/ StitchStep \/ StitchReturn
        \/ Encode

Spec == Init /\ [][Next]_vars

\* ------------------------------------------------------------- the stitcher alone
\* Every ascending, non-overlapping list of non-empty segments inside [from, N).
RECURSIVE SegmentLists(_, _)
SegmentLists(from, N) ==
  {<<>>} \cup UNION {UNION {{<<<<s, e>>>> \o rest : rest \in SegmentLists(e, N)} :
                            e \in (s + 1)..N} : s \in from..(N - 1)}

\* buildOutputBufferFromSegments(source, segments, overlapSamples) is called
\* with any well-formed segment list over a source of one sample value.
InitStitch ==
  /\ pc = "build"
  /\ \E N \in 0..MaxN, v \in Samples :
       /\ monoData = [i \in 1..N |-> v]
       /\ audioBuffer = [sampleRate |-> 20, channels |-> <<monoData>>]
       /\ segments \in SegmentLists(0, N)
  /\ overlapSamples \in 0..MaxOverlap
  /\ options = [silenceThreshold |-> Rat(1, 4), minSilenceMs |-> 0, overlapMs |-> 0]
  /\ minSilenceSamples = 0 /\ raw = <<>> /\ total = 0 /\ out = <<>>
  /\ writePos = 0 /\ idx = 0 /\ outBuffer = NoBuffer /\ wav = NoWav

NextStitch == StitchBegin \/ StitchStep \/ StitchReturn

SpecStitch == InitStitch /\ [][NextStitch]_vars

\* ------------------------------------------------------------- the encoder alone
\* Inputs of floatTo16BitPCM: in range, out of range, and between PCM steps.
PcmInputs == {Rat(-3, 2), Rat(-1, 1), Rat(-3, 4), Rat(-1, 4), Rat(-1, 65536), Rat(0, 1),
              Rat(1, 32768), Rat(1, 4), Rat(1, 2), Rat(3, 4), Rat(1, 1), Rat(3, 2)}

\* audioBufferToWavBlob(buffer) is called with any mono buffer.
InitPCM ==
  /\ pc = "encode"
  /\ \E n \in 0..MaxPcmLen :
       outBuffer \in [sampleRate : SampleRates, data : SeqsOfLen(PcmInputs, n)]
  /\ audioBuffer = [sampleRate |-> outBuffer.sampleRate, channels |-> <<outBuffer.data>>]
  /\ options = [silenceThreshold |-> Rat(1, 4), minSilenceMs |-> 0, overlapMs |-> 0]
  /\ minSilenceSamples = 0 /\ overlapSamples = 0 /\ monoData = <<>>
  /\ raw = <<>> /\ segments = <<>> /\ total = 0 /\ out = <<>>
  /\ writePos = 0 /\ idx = 0 /\ wav = NoWav

NextPCM == Encode

SpecPCM == InitPCM /\ [][NextPCM]_vars

\* ------------------------------------------------------------- properties
\* detectSpeechSegments has returned (position of processAudioBuffer).
Detected == pc \notin {"entry", "detect"}

NumSamples == Len(monoData)

\* The sample with index i is silent: |sample| < silenceThreshold.
Silent(i) == RatLess(RatAbs(monoData[i + 1]), options.silenceThreshold)

\* The sample index i lies in a returned segment.
Covered(i) == \E k \in 1..Len(segments) : segments[k][1] <= i /\ i < segments[k][2]

ValidDetectInput == RatLess(Zero, options.silenceThreshold) /\ minSilenceSamples >= 0

\* The configuration is the one the interface asks for: a positive threshold
\* and non-negative durations.
ValidConfiguration ==
  /\ RatLess(Zero, options.silenceThreshold)
  /\ options.minSilenceMs >= 0
  /\ options.overlapMs >= 0

\* C1: for every mono buffer, sample rate, positive threshold and
\* minSilenceSamples >= 0, the list detectSpeechSegments returns is non-empty,
\* ascending and non-overlapping (segments[i].end <= segments[i+1].start).
C1_NonEmptyOrdered ==
  (Detected /\ ValidDetectInput) =>
    /\ Len(segments) >= 1
    /\ \A k \in 1..(Len(segments) - 1) :
         /\ segments[k][2] <= segments[k + 1][1]
         /\ segments[k][1] < segments[k + 1][1]

\* C1 witness: a returned list with an adjacent pair of segments.
C1_Witness == Detected /\ ValidDetectInput /\ Len(segments) >= 2

WellFormedSegment(seg) == 0 <= seg[1] /\ seg[1] < seg[2] /\ seg[2] <= NumSamples

\* C2 (as stated): every returned segment satisfies 0 <= start < end <= N for
\* every input buffer, the empty buffer (N = 0) included.
C2_Original ==
  (Detected /\ ValidConfiguration) => \A k \in 1..Len(segments) : WellFormedSegment(segments[k])

\* C2 (amended): for N >= 1 every returned segment satisfies
\* 0 <= start < end <= N; for the empty buffer the returned list is the single
\* zero-length segment [0, 0].
C2_Amended ==
  Detected =>
    IF NumSamples = 0 THEN segments = <<<<0, 0>>>>
    ELSE \A k \in 1..Len(segments) : WellFormedSegment(segments[k])

\* C2 witness: a clip that starts with a long silence (the scan closes nothing
\* there) and still yields two segments.
C2_Witness ==
  /\ Detected /\ NumSamples >= 1 /\ minSilenceSamples >= 1
  /\ Silent(0) /\ Len(segments) >= 2

\* C3: only silence is trimmed: every sample index covered by no returned
\* segment holds a silent sample.
C3_OnlySilenceTrimmed ==
  (Detected /\ ValidConfiguration) => \A i \in 0..(NumSamples - 1) : ~Covered(i) => Silent(i)

\* The clip is L1 non-silent samples, S silent samples, L2 non-silent samples.
ToneSilenceTone(L1, S, L2) ==
  /\ NumSamples = L1 + S + L2
  /\ \A i \in 0..(NumSamples - 1) : Silent(i) <=> (L1 <= i /\ i < L1 + S)

\* C4: for L1 non-silent, S silent, L2 non-silent samples with
\* S >= minSilenceSamples and S > floor(sampleRate * 0.03), two segments of
\* lengths L1 and L2 are returned and the stitched buffer has length
\* L1 + L2 - min(overlapSamples, L1, L2).
C4_ToneSilenceTone ==
  \A L1 \in 1..MaxN, S \in 1..MaxN, L2 \in 1..MaxN :
    (/\ Detected
     /\ ValidConfiguration
     /\ ToneSilenceTone(L1, S, L2)
     /\ S >= minSilenceSamples
     /\ S > MERGE_GAP_SAMPLES(audioBuffer.sampleRate))
    => /\ Len(segments) = 2
       /\ SegLen(segments[1]) = L1
       /\ SegLen(segments[2]) = L2
       /\ pc \in {"encode", "done"} =>
            Len(outBuffer.data) = L1 + L2 - Min2(Min2(overlapSamples, L1), L2)

RECURSIVE SumOfLengths(_, _)
SumOfLengths(segs, k) == IF k = 0 THEN 0 ELSE SumOfLengths(segs, k - 1) + SegLen(segs[k])

RECURSIVE SumOfOverlaps(_, _, _)
SumOfOverlaps(segs, k, ov) ==
  IF k <= 1 THEN 0
  ELSE SumOfOverlaps(segs, k - 1, ov)
       + Min2(ov, Min2(SegLen(segs[k - 1]), SegLen(segs[k])))

\* C5: with at least two segments the output is allocated with length
\* (sum of segment lengths) - (sum of per-boundary overlaps); while stitching
\* the cursor never goes below 0 (not even when it retreats by the overlap),
\* every write stays inside the output, no write throws, and after the last
\* segment the cursor equals the allocated length.
C5_LengthAndCursor ==
  (Len(segments) >= 2 /\ pc \notin {"branch", "build"}) =>
    /\ pc # "threw"
    /\ total = SumOfLengths(segments, Len(segments))
               - SumOfOverlaps(segments, Len(segments), overlapSamples)
    /\ Len(out) = total
    /\ 0 <= writePos /\ writePos <= total
    /\ idx >= 1 => writePos - SegLen(segments[idx]) >= 0
    /\ (1 <= idx /\ idx < Len(segments)) =>
         writePos - Min2(overlapSamples,
                         Min2(SegLen(segments[idx]), SegLen(segments[idx + 1]))) >= 0
    /\ idx = Len(segments) => writePos = total

\* C5 witness: three segments stitched with a non-zero overlap, cursor at the
\* end.
C5_Witness ==
  /\ pc = "stitch" /\ Len(segments) >= 3 /\ idx = Len(segments)
  /\ overlapSamples >= 1 /\ writePos = total
  /\ total < SumOfLengths(segments, Len(segments))

\* Math.round of the rational r.
RoundNearest(r) == MathRound(r[1], r[2])

\* C6: floatTo16BitPCM stores round(s * 32767) for s >= 0 and
\* round(s * 32768) for s < 0, s = clamp(x, -1, 1), rounding to nearest.
C6_RoundedPCM ==
  pc = "done" =>
    /\ Len(wav.pcm) = Len(outBuffer.data)
    /\ \A j \in 1..Len(outBuffer.data) :
         LET x == outBuffer.data[j]
             s == IF RatLess(Rat(1, 1), x) THEN Rat(1, 1)
                  ELSE IF RatLess(x, Rat(-1, 1)) THEN Rat(-1, 1) ELSE x
         IN /\ wav.pcm[j] = IF RatLess(s, Zero) THEN RoundNearest(RatMul(s, Rat(32768, 1)))
                            ELSE RoundNearest(RatMul(s, Rat(32767, 1)))
            /\ -32768 <= wav.pcm[j] /\ wav.pcm[j] <= 32767

InvalidConfiguration ==
  \/ RatLess(options.silenceThreshold, Zero)
  \/ options.minSilenceMs < 0
  \/ options.overlapMs < 0

\* C7: an invalid configuration (a negative threshold or duration) is reported
\* at entry and never results in an encoded container.
C7_InvalidRejected == InvalidConfiguration => (pc # "done" /\ wav = NoWav)

\* The raw segment r lies inside the returned segment m.
Inside(r, m) == m[1] <= r[1] /\ r[2] <= m[2]

\* C8: the merge pass joins every raw segment that starts at most
\* mergeGapSamples = floor(sampleRate * 0.03) after the end of the segment
\* accepted before it: adjacent returned segments are more than mergeGapSamples
\* apart, the returned list is no longer than the raw list, every raw segment
\* lies in exactly one returned segment, and every returned segment starts and
\* ends where raw segments do.
C8_MergePass ==
  Detected =>
    LET gap == (audioBuffer.sampleRate * 3) \div 100 IN
    /\ \A k \in 1..(Len(segments) - 1) : segments[k + 1][1] - segments[k][2] > gap
    /\ Len(segments) <= Len(raw)
    /\ \A r \in 1..Len(raw) :
         Cardinality({k \in 1..Len(segments) : Inside(raw[r], segments[k])}) = 1
    /\ \A k \in 1..Len(segments) :
         /\ \E r \in 1..Len(raw) : raw[r][1] = segments[k][1]
         /\ \E r \in 1..Len(raw) : raw[r][2] = segments[k][2]
    /\ \A r \in 1..(Len(raw) - 1) :
         (raw[r + 1][1] - raw[r][2] > gap) =>
           \E k \in 1..(Len(segments) - 1) :
             segments[k][2] = raw[r][2] /\ segments[k + 1][1] = raw[r + 1][1]

\* C8 witness: two raw segments within the merge gap, returned as one.
C8_Witness ==
  /\ Detected /\ Len(raw) = 2 /\ Len(segments) = 1
  /\ raw[2][1] - raw[1][2] <= (audioBuffer.sampleRate * 3) \div 100

AllSilent == \A i \in 0..(NumSamples - 1) : Silent(i)

\* Some run of consecutive silent samples is at least minSilenceSamples long.
SomeRunReaches ==
  \E a \in 0..(NumSamples - 1), b \in 0..(NumSamples - 1) :
    /\ a <= b
    /\ \A i \in a..b : Silent(i)
    /\ b - a + 1 >= minSilenceSamples

\* C9: when every sample is silent, or no run of silent samples reaches
\* minSilenceSamples, exactly the segment [0, N) is returned and the buffer
\* handed to the encoder equals the downmixed input.
C9_PassThrough ==
  (Detected /\ NumSamples >= 1 /\ (AllSilent \/ ~SomeRunReaches)) =>
    /\ segments = <<<<0, NumSamples>>>>
    /\ pc \notin {"stitch", "threw"}
    /\ pc \in {"encode", "done"} =>
         /\ Len(outBuffer.data) = NumSamples
         /\ \A j \in 1..NumSamples : outBuffer.data[j] = monoData[j]

\* C9 witness: an all-silent clip at least minSilenceSamples long (the scan
\* closes nothing and ends in silence), encoded.
C9_Witness ==
  /\ pc = "done" /\ NumSamples >= 2 /\ AllSilent
  /\ minSilenceSamples >= 1 /\ minSilenceSamples <= NumSamples

\* The indices a..b are a maximal run covered by no returned segment.
MaximalUncoveredRun(a, b) ==
  /\ a <= b
  /\ \A i \in a..b : ~Covered(i)
  /\ a = 0 \/ Covered(a - 1)
  /\ b = NumSamples - 1 \/ Covered(b + 1)

\* C10: every maximal run of sample indices covered by no returned segment
\* contains at least minSilenceSamples consecutive silent samples.
C10_ShortPausesKept ==
  Detected =>
    \A a \in 0..(NumSamples - 1), b \in 0..(NumSamples - 1) :
      MaximalUncoveredRun(a, b) =>
        \E c \in a..(b + 1) :
          /\ c + minSilenceSamples - 1 <= b
          /\ \A i \in c..(c + minSilenceSamples - 1) : Silent(i)

\* C10 witness: a cut between two returned segments with minSilenceSamples >= 2.
C10_Witness ==
  /\ Detected /\ minSilenceSamples >= 2 /\ Len(segments) >= 2
  /\ \E a \in 0..(NumSamples - 1), b \in 0..(NumSamples - 1) :
       MaximalUncoveredRun(a, b) /\ a > 0 /\ b < NumSamples - 1

\* The weight the source sample with index src has in a blend: the sum of its
\* terms, over the first t terms.
RECURSIVE NetWeight(_, _, _)
NetWeight(blend, src, t) ==
  IF t = 0 THEN Zero
  ELSE RatAdd(NetWeight(blend, src, t - 1),
              IF blend[t][1] = src THEN Rat(blend[t][2], blend[t][3]) ELSE Zero)

\* The blend is source sample s1 weighted w1 plus source sample s2 weighted w2,
\* and nothing else.
IsBlendOf(blend, s1, w1, s2, w2) ==
  \A src \in 0..(NumSamples - 1) :
    NetWeight(blend, src, Len(blend)) =
      IF src = s1 THEN w1 ELSE IF src = s2 THEN w2 ELSE Zero

\* The blend is a verbatim copy of the source sample s.
IsCopyOf(blend, s) ==
  \A src \in 0..(NumSamples - 1) :
    NetWeight(blend, src, Len(blend)) = IF src = s THEN Rat(1, 1) ELSE Zero

\* ov at the boundary before segment k, as the claim defines it.
BoundaryOverlap(k) ==
  Min2(overlapSamples, Min2(SegLen(segments[k - 1]), SegLen(segments[k])))

\* The output index where the crossfade of the boundary before segment k starts.
BoundaryStart(k) ==
  SumOfLengths(segments, k - 1) - SumOfOverlaps(segments, k - 1, overlapSamples)
  - BoundaryOverlap(k)

InCrossfadeRegion(p) ==
  \E k \in 2..Len(segments) :
    BoundaryStart(k) <= p /\ p < BoundaryStart(k) + BoundaryOverlap(k)

\* C11: at the boundary between segment k-1 and segment k, with
\* ov = min(overlapSamples, len(k-1), len(k)), crossfaded output sample i is the
\* blend of exactly two source samples: sample i of the last ov source samples
\* of segment k-1 (weight 1 - i/ov) and sample i of the first ov source samples
\* of segment k (weight i/ov); the rest of segment k, and in the end every
\* output sample outside a crossfade region, is a verbatim copy of one source
\* sample.  Stated for every segment list (idx = k: segment k was just written).
C11_TwoSourceCrossfade ==
  (pc = "stitch" /\ Len(segments) >= 2 /\ idx >= 2) =>
    LET seg == segments[idx]
        prev == segments[idx - 1]
        ov == BoundaryOverlap(idx)
        wp == writePos - SegLen(seg)
    IN /\ \A i \in 0..(ov - 1) :
            IsBlendOf(out[wp + i + 1], prev[2] - ov + i, Rat(ov - i, ov),
                      seg[1] + i, Rat(i, ov))
       /\ \A i \in ov..(SegLen(seg) - 1) : IsCopyOf(out[wp + i + 1], seg[1] + i)
       /\ idx = Len(segments) =>
            \A p \in 0..(Len(out) - 1) :
              ~InCrossfadeRegion(p) =>
                \E src \in 0..(NumSamples - 1) : IsCopyOf(out[p + 1], src)

====
